---- MODULE Spec2Model ----
(***************************************************************************)
(* A model of SCCmecFinder_v4.py: the parsing of the identity-matcher and  *)
(* k-mer matcher tables, the gene-complex classifier, the SCCmec typer,    *)
(* the subtype reconciliation and the synthesis of the report and of the   *)
(* homology table.                                                         *)
(*                                                                         *)
(* Text is modelled as TLA+ strings; a table row is the list of its        *)
(* tab-separated columns; a written file is the list of its lines (every   *)
(* write of the program ends with a line break).  A number read with       *)
(* float() is modelled in hundredths.                                      *)
(***************************************************************************)
EXTENDS Integers, Sequences, FiniteSets, TLC

VARIABLES
    pc,               \* position in main()
    db_file,          \* data rows of results_tab_MyDbFinder.txt (after the header)
    db_pos,           \* number of identity-matcher rows read so far
    km_file,          \* data rows of results_MyKmerFinder.txt (after the header)
    km_pos,           \* number of k-mer matcher rows read so far
    ccrAB_genes, ccrC_genes, mec_genes, subtyping_genes,
    mrsa_gene,        \* the resistance marker
    total_genes,
    kmer_results,     \* dict: list of <<template name, record>> in insertion order
    all_classes,
    sccmec_types,
    perform_subtyping,
    kmer_hits, best_kmer_hit, kmer_subtype,
    report,           \* lines of the result file
    html,             \* lines of HTML_MyKmerFinder.txt
    rerun,            \* whether the tool has been invoked again on the same tables
    prev_report       \* the report the previous invocation left

vars == <<pc, db_file, db_pos, km_file, km_pos, ccrAB_genes, ccrC_genes,
          mec_genes, subtyping_genes, mrsa_gene, total_genes, kmer_results,
          all_classes, sccmec_types, perform_subtyping, kmer_hits,
          best_kmer_hit, kmer_subtype, report, html, rerun, prev_report>>

-----------------------------------------------------------------------------
(* Text primitives of Python used by the program.                          *)

Range(s) == {s[i] : i \in DOMAIN s}

\* str.startswith(p)
StartsWith(s, p) == Len(s) >= Len(p) /\ SubSeq(s, 1, Len(p)) = p

\* position of the first occurrence of the one-character text c in s, 0 if none
IndexOf(s, c) ==
    LET hits == {i \in 1..Len(s) : SubSeq(s, i, i) = c}
    IN  IF hits = {} THEN 0 ELSE CHOOSE i \in hits : \A j \in hits : i <= j

\* str.split(sep) for a one-character separator: the list of segments
RECURSIVE Split(_, _)
Split(s, sep) ==
    LET i == IndexOf(s, sep)
    IN  IF i = 0 THEN <<s>>
        ELSE <<SubSeq(s, 1, i - 1)>> \o Split(SubSeq(s, i + 1, Len(s)), sep)

DigitVal(c) ==
    CASE c = "0" -> 0 [] c = "1" -> 1 [] c = "2" -> 2 [] c = "3" -> 3
      [] c = "4" -> 4 [] c = "5" -> 5 [] c = "6" -> 6 [] c = "7" -> 7
      [] c = "8" -> 8 [] c = "9" -> 9

RECURSIVE ParseDigits(_)
ParseDigits(s) ==
    IF Len(s) = 0 THEN 0
    ELSE 10 * ParseDigits(SubSeq(s, 1, Len(s) - 1)) + DigitVal(SubSeq(s, Len(s), Len(s)))

\* float(s) of a plain decimal text with at most two decimals, in hundredths
ParseFloat(s) ==
    LET p == Split(s, ".")
        frac == IF Len(p) = 1 THEN "00"
                ELSE IF Len(p[2]) = 1 THEN p[2] \o "0" ELSE p[2]
    IN  100 * ParseDigits(p[1]) + ParseDigits(frac)

\* dict.get(key, set())
Get(table, key) == IF key \in DOMAIN table THEN table[key] ELSE {}

-----------------------------------------------------------------------------
(* The rule tables.                                                        *)

SCCMEC_DEFINITIONS ==
    ("SCCmec_type_I(1B)" :> {"ccrA1", "ccrB1", "mecA", "dmecR1", "IS1272"}) @@
    ("SCCmec_type_II(2A)" :> {"ccrA2", "ccrB2", "mecA", "mecR1", "mecI"}) @@
    ("SCCmec_type_III(3A)" :> {"ccrA3", "ccrB3", "mecA", "mecR1", "mecI"}) @@
    ("SCCmec_type_IV(2B)" :> {"ccrA2", "ccrB2", "mecA", "dmecR1", "IS1272"}) @@
    ("SCCmec_type_IV(2B&5)" :> {"ccrA2", "ccrB2", "ccrC11", "mecA", "dmecR1", "IS1272"}) @@
    ("SCCmec_type_V(5C2)" :> {"ccrC11", "mec-class-C2", "mecA"}) @@
    ("SCCmec_type_V(5C2&5)" :> {"ccrC11", "ccrC12", "mec-class-C2", "mecA"}) @@
    ("SCCmec_type_VI(4B)" :> {"ccrA4", "ccrB4", "mecA", "dmecR1", "IS1272"}) @@
    ("SCCmec_type_VII(5C1)" :> {"ccrC11", "mec-class-C1", "mecA"}) @@
    ("SCCmec_type_VIII(4A)" :> {"ccrA4", "ccrB4", "mecA", "mecR1", "mecI"}) @@
    ("SCCmec_type_IX(1C2)" :> {"ccrA1", "ccrB1", "mec-class-C2", "mecA"}) @@
    ("SCCmec_type_X(7C1)" :> {"ccrA1", "ccrB6", "mec-class-C1", "mecA"}) @@
    ("SCCmec_type_XI(8E)" :> {"ccrA1", "ccrB3", "mecC", "mecR1", "mecI"}) @@
    ("SCCmec_type_XII(9C2)" :> {"ccrC21", "mec-class-C2", "mecA"}) @@
    ("SCCmec_type_XIII(9A)" :> {"ccrC21", "mecA", "dmecR1", "IS1272"})

SCCMEC_CLASSES ==
    ("SCCmec_type_I(1B)" :> {"ccr class 1", "mec class B"}) @@
    ("SCCmec_type_II(2A)" :> {"ccr class 2", "mec class A"}) @@
    ("SCCmec_type_III(3A)" :> {"ccr class 3", "mec class A"}) @@
    ("SCCmec_type_IV(2B)" :> {"ccr class 2", "mec class B"}) @@
    ("SCCmec_type_IV(2B&5)" :> {"ccr class 5", "ccr class 2", "mec class B"}) @@
    ("SCCmec_type_V(5C2)" :> {"ccr class 5", "mec class C2"}) @@
    ("SCCmec_type_V(5C2&5)" :> {"ccr class 5&5", "mec class C2"}) @@
    ("SCCmec_type_VI(4B)" :> {"ccr class 4", "mec class B"}) @@
    ("SCCmec_type_VII(5C1)" :> {"ccr class 5", "mec class C1"}) @@
    ("SCCmec_type_VIII(4A)" :> {"ccr class 4", "mec class A"}) @@
    ("SCCmec_type_IX(1C2)" :> {"ccr class 1", "mec class C2"}) @@
    ("SCCmec_type_X(7C1)" :> {"ccr class 7", "mec class C1"}) @@
    ("SCCmec_type_XI(8E)" :> {"ccr class 8", "mec class E"}) @@
    ("SCCmec_type_XII(9C2)" :> {"ccr class 9", "mec class C2"}) @@
    ("SCCmec_type_XIII(9A)" :> {"ccr class 9", "mec class A"})

\* the keys of SCCMEC_CLASSES in the order the table lists them
SCCMEC_TYPE_ORDER ==
    << "SCCmec_type_I(1B)", "SCCmec_type_II(2A)", "SCCmec_type_III(3A)",
       "SCCmec_type_IV(2B)", "SCCmec_type_IV(2B&5)", "SCCmec_type_V(5C2)",
       "SCCmec_type_V(5C2&5)", "SCCmec_type_VI(4B)", "SCCmec_type_VII(5C1)",
       "SCCmec_type_VIII(4A)", "SCCmec_type_IX(1C2)", "SCCmec_type_X(7C1)",
       "SCCmec_type_XI(8E)", "SCCmec_type_XII(9C2)", "SCCmec_type_XIII(9A)" >>

\* every class label the classifier can emit
COMPLEX_CLASSES ==
    { "ccr class 1", "ccr class 2", "ccr class 5&5", "ccr class 5", "ccr class 3",
      "ccr class 4", "ccr class 6", "ccr class 7", "ccr class 8", "ccr class 9",
      "mec class A", "mec class B", "mec class C1", "mec class C2", "mec class E" }

-----------------------------------------------------------------------------
(* The classifier and the typer.                                           *)

\* classes.append(label) under a condition
Append_if(cond, label) == IF cond THEN <<label>> ELSE <<>>

perform_ccr_gene_complex_typing(ccrAB, ccrC) ==
    Append_if({"ccrA1", "ccrB1"} \subseteq ccrAB, "ccr class 1") \o
    Append_if({"ccrA2", "ccrB2"} \subseteq ccrAB, "ccr class 2") \o
    (IF {"ccrC11", "ccrC12"} \subseteq ccrC THEN <<"ccr class 5&5">>
     ELSE IF "ccrC11" \in ccrC THEN <<"ccr class 5">> ELSE <<>>) \o
    Append_if({"ccrA3", "ccrB3"} \subseteq ccrAB, "ccr class 3") \o
    Append_if({"ccrA4", "ccrB4"} \subseteq ccrAB, "ccr class 4") \o
    Append_if({"ccrA5", "ccrB3"} \subseteq ccrAB, "ccr class 6") \o
    Append_if({"ccrA1", "ccrB6"} \subseteq ccrAB, "ccr class 7") \o
    Append_if({"ccrA1", "ccrB3"} \subseteq ccrAB, "ccr class 8") \o
    Append_if("ccrC21" \in ccrC, "ccr class 9")

perform_mec_gene_complex_typing(mec) ==
    Append_if({"mecA", "mecR1", "mecI"} \subseteq mec, "mec class A") \o
    Append_if({"mecA", "dmecR1", "IS1272"} \subseteq mec, "mec class B") \o
    Append_if({"mecA", "mec-class-C1"} \subseteq mec, "mec class C1") \o
    Append_if({"mecA", "mec-class-C2"} \subseteq mec, "mec class C2") \o
    Append_if({"mecC", "mecR1", "mecI"} \subseteq mec, "mec class E")

\* a typer that tests the two type IV rules independently
perform_sccmec_typing_no_elif(classes) ==
    Append_if({"ccr class 1", "mec class B"} \subseteq classes, "SCCmec_type_I(1B)") \o
    Append_if({"ccr class 2", "mec class A"} \subseteq classes, "SCCmec_type_II(2A)") \o
    Append_if({"ccr class 3", "mec class A"} \subseteq classes, "SCCmec_type_III(3A)") \o
    Append_if({"ccr class 2", "ccr class 5", "mec class B"} \subseteq classes, "SCCmec_type_IV(2B&5)") \o
    Append_if({"ccr class 2", "mec class B"} \subseteq classes, "SCCmec_type_IV(2B)") \o
    Append_if({"ccr class 5", "mec class C2"} \subseteq classes, "SCCmec_type_V(5C2)") \o
    Append_if({"ccr class 5&5", "mec class C2"} \subseteq classes, "SCCmec_type_V(5C2&5)") \o
    Append_if({"ccr class 4", "mec class B"} \subseteq classes, "SCCmec_type_VI(4B)") \o
    Append_if({"ccr class 5", "mec class C1"} \subseteq classes, "SCCmec_type_VII(5C1)") \o
    Append_if({"ccr class 4", "mec class A"} \subseteq classes, "SCCmec_type_VIII(4A)") \o
    Append_if({"ccr class 1", "mec class C2"} \subseteq classes, "SCCmec_type_IX(1C2)") \o
    Append_if({"ccr class 7", "mec class C1"} \subseteq classes, "SCCmec_type_X(7C1)") \o
    Append_if({"ccr class 8", "mec class E"} \subseteq classes, "SCCmec_type_XI(8E)") \o
    Append_if({"ccr class 9", "mec class C2"} \subseteq classes, "SCCmec_type_XII(9C2)") \o
    Append_if({"ccr class 9", "mec class A"} \subseteq classes, "SCCmec_type_XIII(9A)")

perform_sccmec_typing(classes) ==
    Append_if({"ccr class 1", "mec class B"} \subseteq classes, "SCCmec_type_I(1B)") \o
    Append_if({"ccr class 2", "mec class A"} \subseteq classes, "SCCmec_type_II(2A)") \o
    Append_if({"ccr class 3", "mec class A"} \subseteq classes, "SCCmec_type_III(3A)") \o
    (IF {"ccr class 2", "ccr class 5", "mec class B"} \subseteq classes
        THEN <<"SCCmec_type_IV(2B&5)">>
     ELSE IF {"ccr class 2", "mec class B"} \subseteq classes
        THEN <<"SCCmec_type_IV(2B)">>
     ELSE <<>>) \o
    Append_if({"ccr class 5", "mec class C2"} \subseteq classes, "SCCmec_type_V(5C2)") \o
    Append_if({"ccr class 5&5", "mec class C2"} \subseteq classes, "SCCmec_type_V(5C2&5)") \o
    Append_if({"ccr class 4", "mec class B"} \subseteq classes, "SCCmec_type_VI(4B)") \o
    Append_if({"ccr class 5", "mec class C1"} \subseteq classes, "SCCmec_type_VII(5C1)") \o
    Append_if({"ccr class 4", "mec class A"} \subseteq classes, "SCCmec_type_VIII(4A)") \o
    Append_if({"ccr class 1", "mec class C2"} \subseteq classes, "SCCmec_type_IX(1C2)") \o
    Append_if({"ccr class 7", "mec class C1"} \subseteq classes, "SCCmec_type_X(7C1)") \o
    Append_if({"ccr class 8", "mec class E"} \subseteq classes, "SCCmec_type_XI(8E)") \o
    Append_if({"ccr class 9", "mec class C2"} \subseteq classes, "SCCmec_type_XII(9C2)") \o
    Append_if({"ccr class 9", "mec class A"} \subseteq classes, "SCCmec_type_XIII(9A)")

-----------------------------------------------------------------------------
(* Dicts and sets of Python.                                               *)

\* d[key] = value on a dict kept as a list of <<key, value>>: a key already
\* present keeps its place and takes the new value, a new key goes last
DictSet(d, key, value) ==
    IF \E i \in DOMAIN d : d[i][1] = key
    THEN [i \in DOMAIN d |-> IF d[i][1] = key THEN <<key, value>> ELSE d[i]]
    ELSE Append(d, <<key, value>>)

RECURSIVE SetToSeq(_)
SetToSeq(S) ==
    IF S = {} THEN <<>>
    ELSE LET x == CHOOSE y \in S : TRUE IN <<x>> \o SetToSeq(S \ {x})

\* the orders in which iterating a set of strings can yield its elements:
\* the order follows the strings' hashes, which are salted per process
IterationOrders(S) ==
    IF S = {} THEN {<<>>}
    ELSE LET b == SetToSeq(S)
         IN  {[i \in 1..Len(b) |-> p[b[i]]] : p \in Permutations(S)}

\* insertion of x behind every element whose score is greater
InsertBeforeTies(sorted, x) ==
    LET k == Cardinality({i \in DOMAIN sorted :
                 ParseFloat(sorted[i][2].Score) > ParseFloat(x[2].Score)})
    IN  SubSeq(sorted, 1, k) \o <<x>> \o SubSeq(sorted, k + 1, Len(sorted))

\* insertion of x, the latest item, into a list sorted by descending score:
\* behind every element whose score is greater or equal
InsertSorted(sorted, x) ==
    LET k == Cardinality({i \in DOMAIN sorted :
                 ParseFloat(sorted[i][2].Score) >= ParseFloat(x[2].Score)})
    IN  SubSeq(sorted, 1, k) \o <<x>> \o SubSeq(sorted, k + 1, Len(sorted))

\* sorted(items, key=lambda x: float(x[1]['Score']), reverse=True): stable
RECURSIVE SortedByScore(_)
SortedByScore(items) ==
    IF items = <<>> THEN <<>>
    ELSE InsertSorted(SortedByScore(SubSeq(items, 1, Len(items) - 1)),
                      items[Len(items)])

-----------------------------------------------------------------------------
(* main(): reading the identity-matcher table.                             *)

MIN_DB_COLUMNS == 4
MIN_KMER_COLUMNS == 10
TOP_HITS == 5

\* the gene token of a row: parts[0].split(':')[0]
GeneOf(parts) == Split(parts[1], ":")[1]

\* a marker rule that tests the mecA prefix first
MarkerAfter_mecA_first(marker, gene) ==
    IF StartsWith(gene, "mecA") THEN "mecA"
    ELSE IF StartsWith(gene, "mecALGA251") THEN "mecALGA251"
    ELSE IF StartsWith(gene, "mec-class") THEN "mecA"
    ELSE marker

\* mrsa_gene after a row of the mec family
MarkerAfter(marker, gene) ==
    IF StartsWith(gene, "mecALGA251") THEN "mecALGA251"
    ELSE IF StartsWith(gene, "mecA") THEN "mecA"
    ELSE IF StartsWith(gene, "mec-class") THEN "mecA"
    ELSE marker

ParseDbRow ==
    /\ pc = "parse_db"
    /\ db_pos < Len(db_file)
    /\ LET parts == db_file[db_pos + 1]
           gene == GeneOf(parts)
           isCcr == Len(parts) >= MIN_DB_COLUMNS /\ StartsWith(gene, "ccr")
           isMec == /\ Len(parts) >= MIN_DB_COLUMNS
                    /\ ~StartsWith(gene, "ccr")
                    /\ \/ StartsWith(gene, "mec")
                       \/ StartsWith(gene, "IS")
                       \/ StartsWith(gene, "dme")
           isSub == /\ Len(parts) >= MIN_DB_COLUMNS
                    /\ ~StartsWith(gene, "ccr")
                    /\ ~isMec
                    /\ StartsWith(gene, "sub")
       IN  /\ ccrAB_genes' =
                IF isCcr /\ (StartsWith(gene, "ccrA") \/ StartsWith(gene, "ccrB"))
                THEN ccrAB_genes \cup {gene} ELSE ccrAB_genes
           /\ ccrC_genes' =
                IF /\ isCcr
                   /\ ~(StartsWith(gene, "ccrA") \/ StartsWith(gene, "ccrB"))
                   /\ StartsWith(gene, "ccrC")
                THEN ccrC_genes \cup {gene} ELSE ccrC_genes
           /\ mec_genes' = IF isMec THEN mec_genes \cup {gene} ELSE mec_genes
           /\ mrsa_gene' = IF isMec THEN MarkerAfter(mrsa_gene, gene) ELSE mrsa_gene
           /\ subtyping_genes' =
                IF isSub THEN subtyping_genes \cup {Split(gene, "|")[1]}
                ELSE subtyping_genes
    /\ db_pos' = db_pos + 1
    /\ UNCHANGED <<pc, db_file, km_file, km_pos, total_genes, kmer_results,
                   all_classes, sccmec_types, perform_subtyping, kmer_hits,
                   best_kmer_hit, kmer_subtype, report, html, rerun, prev_report>>

\* the identity-matcher table is read to its end: the k-mer matcher is run
RunKmerFinder ==
    /\ pc = "parse_db"
    /\ db_pos = Len(db_file)
    /\ pc' = "parse_km"
    /\ kmer_results' = <<>>
    /\ UNCHANGED <<db_file, db_pos, km_file, km_pos, ccrAB_genes, ccrC_genes,
                   mec_genes, subtyping_genes, mrsa_gene, total_genes,
                   all_classes, sccmec_types, perform_subtyping, kmer_hits,
                   best_kmer_hit, kmer_subtype, report, html, rerun, prev_report>>

KmerRecord(parts) ==
    [Score |-> parts[2], Expected |-> parts[3], z |-> parts[4],
     p_value |-> parts[5], query_coverage |-> parts[6],
     template_coverage |-> parts[7], depth |-> parts[8],
     Kmers_in_Template |-> parts[9], Description |-> parts[10]]

COVERAGE_CUTOFF == ParseFloat("50.0")

ParseKmerRow ==
    /\ pc = "parse_km"
    /\ km_pos < Len(km_file)
    /\ LET parts == km_file[km_pos + 1]
       IN  kmer_results' =
             IF Len(parts) < MIN_KMER_COLUMNS THEN kmer_results
             ELSE IF ParseFloat(parts[7]) >= COVERAGE_CUTOFF
                  THEN DictSet(kmer_results, parts[1], KmerRecord(parts))
                  ELSE kmer_results
    /\ km_pos' = km_pos + 1
    /\ UNCHANGED <<pc, db_file, db_pos, km_file, ccrAB_genes, ccrC_genes,
                   mec_genes, subtyping_genes, mrsa_gene, total_genes,
                   all_classes, sccmec_types, perform_subtyping, kmer_hits,
                   best_kmer_hit, kmer_subtype, report, html, rerun, prev_report>>

-----------------------------------------------------------------------------
(* main(): typing.                                                         *)

Classify ==
    /\ pc = "parse_km"
    /\ km_pos = Len(km_file)
    /\ total_genes' = ccrAB_genes \cup ccrC_genes \cup mec_genes
    /\ all_classes' = Range(perform_ccr_gene_complex_typing(ccrAB_genes, ccrC_genes)
                            \o perform_mec_gene_complex_typing(mec_genes))
    /\ pc' = "type"
    /\ UNCHANGED <<db_file, db_pos, km_file, km_pos, ccrAB_genes, ccrC_genes,
                   mec_genes, subtyping_genes, mrsa_gene, kmer_results,
                   sccmec_types, perform_subtyping, kmer_hits, best_kmer_hit,
                   kmer_subtype, report, html, rerun, prev_report>>

\* a subtype set that also holds the composite type IV
SUBTYPED_TYPES_with_2B5 ==
    {"SCCmec_type_IV(2B)", "SCCmec_type_IV(2B&5)", "SCCmec_type_V(5C2&5)",
     "SCCmec_type_V(5C2)"}

\* the types whose subtype is resolved
SUBTYPED_TYPES ==
    {"SCCmec_type_IV(2B)", "SCCmec_type_V(5C2&5)", "SCCmec_type_V(5C2)"}

Type ==
    /\ pc = "type"
    /\ LET types == perform_sccmec_typing(all_classes)
       IN  /\ sccmec_types' = types
           /\ perform_subtyping' =
                IF Len(types) = 1 /\ types[1] \in SUBTYPED_TYPES THEN "Yes" ELSE "No"
    /\ pc' = "rank"
    /\ UNCHANGED <<db_file, db_pos, km_file, km_pos, ccrAB_genes, ccrC_genes,
                   mec_genes, subtyping_genes, mrsa_gene, total_genes,
                   kmer_results, all_classes, kmer_hits, best_kmer_hit,
                   kmer_subtype, report, html, rerun, prev_report>>

Rank ==
    /\ pc = "rank"
    /\ LET hits == IF kmer_results # <<>> THEN SortedByScore(kmer_results) ELSE <<>>
       IN  /\ kmer_hits' = hits
           /\ best_kmer_hit' = IF hits # <<>> THEN Split(hits[1][1], "|")[1] ELSE ""
           /\ kmer_subtype' =
                IF hits # <<>> /\ IndexOf(hits[1][1], "|") # 0
                THEN Split(hits[1][1], "|")[2] ELSE ""
    /\ pc' = "report"
    /\ UNCHANGED <<db_file, db_pos, km_file, km_pos, ccrAB_genes, ccrC_genes,
                   mec_genes, subtyping_genes, mrsa_gene, total_genes,
                   kmer_results, all_classes, sccmec_types, perform_subtyping,
                   report, html, rerun, prev_report>>

-----------------------------------------------------------------------------
(* main(): the report.                                                     *)

ResistanceLines ==
    IF mrsa_gene # ""
    THEN << "The input organism was predicted as a MRSA isolate",
            "The " \o mrsa_gene \o " gene was detected", "" >>
    ELSE << "The input organism was predicted as a MSSA isolate",
            "The mecA/mecC gene was not detected", "" >>

\* an ambiguity alert that names the count and lists no label
AmbiguityLines_alert_only ==
    << "Alert! Possible " \o ToString(Len(sccmec_types))
         \o " SCCmec cassettes were predicted:", "" >>

\* the alert for several candidate types, and their labels
AmbiguityLines ==
    << "Alert! Possible " \o ToString(Len(sccmec_types))
         \o " SCCmec cassettes were predicted:" >>
    \o sccmec_types \o << "" >>

\* list(subtyping_genes)[0] of a one-element set
OnlySubtypeGene == CHOOSE g \in subtyping_genes : TRUE

\* subtype_gene.split('-')[1] is evaluated and the gene has no '-': IndexError
SubtypeIndexError ==
    /\ Len(sccmec_types) = 1
    /\ perform_subtyping = "Yes" /\ kmer_subtype # ""
    /\ Cardinality(subtyping_genes) = 1
    /\ Len(Split(OnlySubtypeGene, "-")) < 2

\* a resolver that raises the alert for a single subtyping gene too
SubtypeLines_alert_on_any ==
    IF perform_subtyping = "Yes" /\ kmer_subtype # ""
    THEN IF Cardinality(subtyping_genes) >= 1
         THEN << "Alert! Multiple subtype target genes detected." >>
         ELSE <<>>
    ELSE <<>>

\* the lines of the subtype reconciliation
SubtypeLines ==
    IF perform_subtyping = "Yes" /\ kmer_subtype # ""
    THEN IF Cardinality(subtyping_genes) > 1
         THEN << "Alert! Multiple subtype target genes detected." >>
         ELSE IF Cardinality(subtyping_genes) = 1
         THEN LET db_subtype == Split(sccmec_types[1], "(")[1] \o "_"
                                \o Split(OnlySubtypeGene, "-")[2]
              IN  (IF db_subtype # kmer_subtype
                   THEN << "Alert! Contradicting subtype predictions." >>
                   ELSE <<>>)
                  \o << "Prediction based on genes: " \o db_subtype >>
         ELSE <<>>
    ELSE <<>>

additional_complexes == all_classes \ Get(SCCMEC_CLASSES, sccmec_types[1])
additional_genes == total_genes \ Get(SCCMEC_DEFINITIONS, sccmec_types[1])
missing_genes ==
    Get(SCCMEC_DEFINITIONS, Split(kmer_hits[1][1], "|")[1]) \ total_genes

\* the sets whose elements the report lists with "\n".join(...)
ListedComplexes ==
    IF sccmec_types = <<>> THEN all_classes
    ELSE IF Len(sccmec_types) = 1 THEN additional_complexes ELSE {}

ListedGenes ==
    IF sccmec_types = <<>> THEN (IF kmer_hits # <<>> THEN missing_genes ELSE {})
    ELSE IF Len(sccmec_types) = 1 THEN additional_genes ELSE {}

Section(title, lines) == IF lines = <<>> THEN <<>> ELSE << "", title >> \o lines

SingleTypeLines(complexes, genes) ==
    SubtypeLines
    \o << "Prediction based on genes: " \o sccmec_types[1] >>
    \o (IF best_kmer_hit # ""
        THEN << "Prediction based on homology: " \o best_kmer_hit \o " ("
                  \o kmer_hits[1][2].template_coverage \o "% coverage)" >>
        ELSE <<>>)
    \o Section("Additional complexes found:", complexes)
    \o Section("Additional genes found:", genes)

NoTypeLines(complexes, genes) ==
    << "No SCCmec element was detected" >>
    \o Section("Detected gene complexes:", complexes)
    \o (IF kmer_hits # <<>>
        THEN << "", "Best homology match: " \o kmer_hits[1][1] \o " ("
                  \o kmer_hits[1][2].template_coverage \o "% coverage)" >>
             \o Section("Missing genes for this cassette:", genes)
        ELSE <<>>)

\* the report, its listed sets iterated in the orders complexes and genes
ReportLines(complexes, genes) ==
    ResistanceLines \o
    (IF sccmec_types = <<>> THEN NoTypeLines(complexes, genes)
     ELSE IF Len(sccmec_types) > 1 THEN AmbiguityLines
     ELSE SingleTypeLines(complexes, genes))

WriteReport ==
    /\ pc = "report"
    /\ IF SubtypeIndexError
       THEN /\ report' = ResistanceLines
            /\ pc' = "error"
       ELSE /\ \E complexes \in IterationOrders(ListedComplexes),
                  genes \in IterationOrders(ListedGenes) :
                  report' = ReportLines(complexes, genes)
            /\ pc' = "html"
    /\ UNCHANGED <<db_file, db_pos, km_file, km_pos, ccrAB_genes, ccrC_genes,
                   mec_genes, subtyping_genes, mrsa_gene, total_genes,
                   kmer_results, all_classes, sccmec_types, perform_subtyping,
                   kmer_hits, best_kmer_hit, kmer_subtype, html, rerun,
                   prev_report>>

-----------------------------------------------------------------------------
(* main(): the homology table.                                             *)

HtmlRow(hit) ==
    hit[1] \o "\t" \o hit[2].Score \o "\t" \o hit[2].Expected \o "\t" \o hit[2].z
    \o "\t" \o hit[2].p_value \o "\t" \o hit[2].query_coverage \o "\t"
    \o hit[2].template_coverage \o "\t" \o hit[2].depth \o "\t"
    \o hit[2].Kmers_in_Template \o "\t" \o hit[2].Description

HTML_HEADER ==
    "Template\tScore\tExpected\tz\tp_value\tQuery Coverage\tTemplate Coverage\tDepth\tKmers\tDescription"

\* kmer_hits[:5]
TopHits(hits) == SubSeq(hits, 1, IF Len(hits) < TOP_HITS THEN Len(hits) ELSE TOP_HITS)

WriteHtml ==
    /\ pc = "html"
    /\ html' = << "SCCmec elements" >> \o
               (IF kmer_hits # <<>>
                THEN << HTML_HEADER >> \o
                     [i \in DOMAIN TopHits(kmer_hits) |-> HtmlRow(TopHits(kmer_hits)[i])]
                ELSE << "no whole SCCmec cassette was found" >>)
    /\ pc' = "done"
    /\ UNCHANGED <<db_file, db_pos, km_file, km_pos, ccrAB_genes, ccrC_genes,
                   mec_genes, subtyping_genes, mrsa_gene, total_genes,
                   kmer_results, all_classes, sccmec_types, perform_subtyping,
                   kmer_hits, best_kmer_hit, kmer_subtype, report, rerun,
                   prev_report>>

-----------------------------------------------------------------------------
(* The tool is invoked a second time on the same two tables: a new process *)
(* that starts from main()'s initial values; the report of the first       *)
(* invocation is kept for comparison.                                      *)

Rerun ==
    /\ pc = "done"
    /\ ~rerun
    /\ rerun' = TRUE
    /\ prev_report' = report
    /\ pc' = "parse_db"
    /\ db_pos' = 0 /\ km_pos' = 0
    /\ ccrAB_genes' = {} /\ ccrC_genes' = {} /\ mec_genes' = {}
    /\ subtyping_genes' = {} /\ mrsa_gene' = "" /\ total_genes' = {}
    /\ kmer_results' = <<>> /\ all_classes' = {} /\ sccmec_types' = <<>>
    /\ perform_subtyping' = "No" /\ kmer_hits' = <<>>
    /\ best_kmer_hit' = "" /\ kmer_subtype' = ""
    /\ report' = <<>> /\ html' = <<>>
    /\ UNCHANGED <<db_file, km_file>>

Next ==
    \/ ParseDbRow
    \/ RunKmerFinder
    \/ ParseKmerRow
    \/ Classify
    \/ Type
    \/ Rank
    \/ WriteReport
    \/ WriteHtml
    \/ Rerun

\* main() before it reads the tables db and km
Start(db, km) ==
    /\ pc = "parse_db"
    /\ db_file = db /\ db_pos = 0
    /\ km_file = km /\ km_pos = 0
    /\ ccrAB_genes = {} /\ ccrC_genes = {} /\ mec_genes = {}
    /\ subtyping_genes = {} /\ mrsa_gene = "" /\ total_genes = {}
    /\ kmer_results = <<>> /\ all_classes = {} /\ sccmec_types = <<>>
    /\ perform_subtyping = "No" /\ kmer_hits = <<>>
    /\ best_kmer_hit = "" /\ kmer_subtype = ""
    /\ report = <<>> /\ html = <<>>
    /\ rerun = FALSE /\ prev_report = <<>>

-----------------------------------------------------------------------------
(* The input tables the model is checked on.                               *)

MaxDbRows == 3       \* rows of an identity-matcher table of arbitrary rows
MaxKmRows == 3       \* rows of a k-mer matcher table of arbitrary rows
MaxExtraRows == 2    \* rows that follow the rows of the cassette genes
LongKmRows == 6      \* rows of a k-mer table with pairwise distinct templates

BoundedSeq(S, n) == UNION {[1..k -> S] : k \in 0..n}

DbRow(hit) == << hit, "100.00", "2007/2007", "contig_1" >>
ShortDbRow(hit) == << hit, "100.00" >>

KmRow(name, score, coverage) ==
    << name, score, "12", "95.1", "1.0e-05", "88.10", coverage, "1.02", "2513", name >>
ShortKmRow(name, score) == << name, score >>

\* rows of any kind, in any order
AnyDbRows ==
    { DbRow("mecA:1:BA000018"), DbRow("mecALGA251:1:FR821779"), DbRow("mecC"),
      DbRow("mec-class-C1:2:AB373032"), DbRow("mecR1"), DbRow("dmecR1:1:AB033763"),
      DbRow("IS1272"), DbRow("ccrA1:1:AB033763"), DbRow("ccrC11"),
      DbRow("subtype-IVa|AB063172:1"), ShortDbRow("mecA:1:BA000018"),
      ShortDbRow("mecALGA251:1:FR821779") }

AnyKmRows ==
    { KmRow(n, sc, "50.0") :
        n \in {"SCCmec_type_Vb(5C2)|SCCmec_type_V_Vb", "SCCmec_type_IVa(2B)"},
        sc \in {"10.2", "10.20", "9.5"} }
    \cup { KmRow("SCCmec_type_Vb(5C2)|SCCmec_type_V_Vb", "10.2", "49.99"),
           KmRow("SCCmec_type_IVa(2B)", "9.5", "49.99"),
           ShortKmRow("SCCmec_type_IVa(2B)", "120") }

\* the k-mer table beside the identity-matcher tables of arbitrary rows
OneHitKmFiles ==
    { << KmRow("SCCmec_type_IVa(2B)|SCCmec_type_IVa", "10.2", "75.5") >> }

\* the k-mer tables beside the identity-matcher tables of cassette genes
FewKmFiles ==
    { <<>>,
      << KmRow("SCCmec_type_IV(2B)|SCCmec_type_IV_IVa", "10.2", "75.5") >>,
      << KmRow("SCCmec_type_IV(2B)", "10.2", "75.5") >> }

\* the identity-matcher tables beside the k-mer tables of arbitrary rows
FewDbFiles ==
    { << DbRow("mecA:1:BA000018") >> }

\* tables of n rows with pairwise distinct template names, all retained
LongKmFiles(n) ==
    { [i \in 1..n |-> KmRow("SCCmec_template_" \o ToString(i),
                            IF high[i] THEN (IF i % 2 = 0 THEN "10.20" ELSE "10.2")
                            ELSE "9.5",
                            "80.0")] :
        high \in [1..n -> BOOLEAN] }

TYPES == Range(SCCMEC_TYPE_ORDER)

\* one row per gene of one or of two cassettes
CassetteRows ==
    { LET genes == SetToSeq(SCCMEC_DEFINITIONS[t1] \cup SCCMEC_DEFINITIONS[t2])
      IN  [i \in DOMAIN genes |-> DbRow(genes[i] \o ":1:ref")] :
        t1 \in TYPES, t2 \in TYPES }

ExtraDbRows ==
    { DbRow("subtype-IVa|AB063172:1"), DbRow("subtype-IVc|AB096217:1"),
      DbRow("subtypeVb"), DbRow("ccrC11:2:AB121219") }

\* identity-matcher tables of arbitrary rows
Init ==
    \E db \in BoundedSeq(AnyDbRows, MaxDbRows), km \in OneHitKmFiles : Start(db, km)

Spec == Init /\ [][Next]_vars

\* k-mer matcher tables of arbitrary rows, and long ones
InitKmer ==
    \E db \in FewDbFiles,
       km \in BoundedSeq(AnyKmRows, MaxKmRows) \cup LongKmFiles(LongKmRows) :
        Start(db, km)

SpecKmer == InitKmer /\ [][Next]_vars

\* identity-matcher tables that hold the genes of cassettes
InitCassette ==
    \E base \in CassetteRows, extra \in BoundedSeq(ExtraDbRows, MaxExtraRows),
       km \in FewKmFiles :
        Start(base \o extra, km)

SpecCassette == InitCassette /\ [][Next]_vars

\* the typer applied to any set of class labels
InitTyper ==
    /\ pc = "type"
    /\ all_classes \in SUBSET COMPLEX_CLASSES
    /\ db_file = <<>> /\ db_pos = 0
    /\ km_file = <<>> /\ km_pos = 0
    /\ ccrAB_genes = {} /\ ccrC_genes = {} /\ mec_genes = {}
    /\ subtyping_genes = {} /\ mrsa_gene = "" /\ total_genes = {}
    /\ kmer_results = <<>> /\ sccmec_types = <<>>
    /\ perform_subtyping = "No" /\ kmer_hits = <<>>
    /\ best_kmer_hit = "" /\ kmer_subtype = ""
    /\ report = <<>> /\ html = <<>>
    /\ rerun = FALSE /\ prev_report = <<>>

SpecTyper == InitTyper /\ [][Type]_vars

-----------------------------------------------------------------------------
(* Vocabulary of the properties.                                           *)

HasLine(l) == \E i \in DOMAIN report : report[i] = l
HasLineWith(prefix) == \E i \in DOMAIN report : StartsWith(report[i], prefix)
ReportWritten == pc \in {"html", "done"}
Typed == pc \in {"rank", "report", "html", "done", "error"}
DetectedGenes == ccrAB_genes \cup ccrC_genes \cup mec_genes

-----------------------------------------------------------------------------
(* C1: the typer against its rule table.                                   *)

Qualifies(t) == SCCMEC_CLASSES[t] \subseteq all_classes
Listed(t) ==
    /\ Qualifies(t)
    /\ ~(t = "SCCmec_type_IV(2B)" /\ Qualifies("SCCmec_type_IV(2B&5)"))

\* C1: perform_sccmec_typing(C) is the list, in the order of the rule table,
\* of the types whose class set SCCMEC_CLASSES[T] is a subset of C, without
\* SCCmec_type_IV(2B) when SCCmec_type_IV(2B&5) qualifies; so it is empty iff
\* no type's class set lies in C, and it never holds a type whose classes are
\* only partly present.
C1_TyperFollowsTable ==
    pc = "rank" =>
        /\ sccmec_types = SelectSeq(SCCMEC_TYPE_ORDER, Listed)
        /\ (sccmec_types = <<>>) <=> (\A t \in TYPES : ~Qualifies(t))
        /\ \A t \in Range(sccmec_types) : SCCMEC_CLASSES[t] \subseteq all_classes

\* the precedence case of C1, with a further type matching
C1_Witness ==
    /\ pc = "rank"
    /\ all_classes = {"ccr class 2", "ccr class 5", "mec class B", "mec class C2"}
    /\ sccmec_types = <<"SCCmec_type_IV(2B&5)", "SCCmec_type_V(5C2)">>

-----------------------------------------------------------------------------
(* C2: the genes of a definition, typed.                                   *)

\* C2: for each of the 15 types T, when the detected genes are exactly
\* SCCMEC_DEFINITIONS[T] the typer yields the single type T and the report
\* has no "Additional genes found" section.
C2_DefinitionGenesYieldType ==
    \A t \in TYPES :
        (ReportWritten /\ DetectedGenes = SCCMEC_DEFINITIONS[t]) =>
            /\ sccmec_types = <<t>>
            /\ ~HasLine("Additional genes found:")

-----------------------------------------------------------------------------
(* C3: the complexes of type I and of type II together.                    *)

TypeIandII ==
    /\ ReportWritten
    /\ {"ccr class 1", "mec class B", "ccr class 2", "mec class A"} \subseteq all_classes

NoSingleTypeLines ==
    /\ ~HasLineWith("Prediction based on")
    /\ ~HasLine("Alert! Multiple subtype target genes detected.")
    /\ ~HasLine("Alert! Contradicting subtype predictions.")
    /\ ~HasLine("Additional complexes found:")
    /\ ~HasLine("Additional genes found:")

\* C3 as stated: with the complexes of type I and of type II both detected,
\* the report has an ambiguity alert naming the count 2, lists
\* SCCmec_type_I(1B) and SCCmec_type_II(2A), and has no subtype, homology
\* or additional-complex/gene lines.
C3_AmbiguityNamesTwo ==
    TypeIandII =>
        /\ HasLine("Alert! Possible 2 SCCmec cassettes were predicted:")
        /\ HasLine("SCCmec_type_I(1B)") /\ HasLine("SCCmec_type_II(2A)")
        /\ NoSingleTypeLines

\* C3 amended: with the complexes of type I and of type II both detected,
\* type IV matches too (ccr class 2 with mec class B), so the alert names the
\* number of listed types, which is at least 3; the report lists
\* SCCmec_type_I(1B), SCCmec_type_II(2A) and exactly one of
\* SCCmec_type_IV(2B), SCCmec_type_IV(2B&5), and has no subtype, homology
\* or additional-complex/gene lines.
C3_AmbiguityNamesAtLeastThree ==
    TypeIandII =>
        /\ Len(sccmec_types) >= 3
        /\ HasLine("Alert! Possible " \o ToString(Len(sccmec_types))
                   \o " SCCmec cassettes were predicted:")
        /\ ~HasLine("Alert! Possible 2 SCCmec cassettes were predicted:")
        /\ HasLine("SCCmec_type_I(1B)") /\ HasLine("SCCmec_type_II(2A)")
        /\ HasLine("SCCmec_type_IV(2B)") # HasLine("SCCmec_type_IV(2B&5)")
        /\ Cardinality({i \in DOMAIN report : report[i] \in TYPES}) = Len(sccmec_types)
        /\ NoSingleTypeLines

C3_Witness ==
    /\ TypeIandII /\ pc = "done"
    /\ sccmec_types = <<"SCCmec_type_I(1B)", "SCCmec_type_II(2A)", "SCCmec_type_IV(2B)">>
    /\ subtyping_genes # {} /\ kmer_hits # <<>>

-----------------------------------------------------------------------------
(* C4: scenario B.                                                         *)

ScenarioB ==
    /\ Typed
    /\ DetectedGenes = {"mecA", "dmecR1", "IS1272", "ccrA2", "ccrB2", "ccrC11"}

\* C4 as stated: for the genes {mecA, dmecR1, IS1272, ccrA2, ccrB2, ccrC11}
\* the classes are {mec class B, ccr class 2, ccr class 5}, the single type
\* is SCCmec_type_IV(2B&5), and subtyping is triggered.
C4_ScenarioBSubtyped ==
    ScenarioB =>
        /\ all_classes = {"mec class B", "ccr class 2", "ccr class 5"}
        /\ sccmec_types = <<"SCCmec_type_IV(2B&5)">>
        /\ perform_subtyping = "Yes"

\* C4 amended: for the genes {mecA, dmecR1, IS1272, ccrA2, ccrB2, ccrC11}
\* the classes are {mec class B, ccr class 2, ccr class 5}, the single type
\* is SCCmec_type_IV(2B&5), and subtyping is not triggered, because
\* SCCmec_type_IV(2B&5) is not one of IV(2B), V(5C2), V(5C2&5): the report
\* has no subtype alert and no subtype prediction.
C4_ScenarioBNotSubtyped ==
    ScenarioB =>
        /\ all_classes = {"mec class B", "ccr class 2", "ccr class 5"}
        /\ sccmec_types = <<"SCCmec_type_IV(2B&5)">>
        /\ perform_subtyping = "No"
        /\ pc # "error"
        /\ ReportWritten =>
             /\ ~HasLine("Alert! Multiple subtype target genes detected.")
             /\ ~HasLine("Alert! Contradicting subtype predictions.")
             /\ {i \in DOMAIN report :
                   StartsWith(report[i], "Prediction based on genes: ")}
                = {i \in DOMAIN report :
                   report[i] = "Prediction based on genes: SCCmec_type_IV(2B&5)"}

\* scenario B with a subtyping gene and a homology subtype at hand
C4_Witness ==
    /\ ScenarioB /\ pc = "done"
    /\ Cardinality(subtyping_genes) = 1 /\ kmer_subtype # ""

-----------------------------------------------------------------------------
(* C5: several subtyping genes.                                            *)

SubtypedSingleType ==
    /\ Len(sccmec_types) = 1
    /\ sccmec_types[1] \in
         {"SCCmec_type_IV(2B)", "SCCmec_type_V(5C2)", "SCCmec_type_V(5C2&5)"}

GenePredictions ==
    {i \in DOMAIN report : StartsWith(report[i], "Prediction based on genes: ")}

MultipleAlert == HasLine("Alert! Multiple subtype target genes detected.")

\* C5 as stated: the report has the alert "Multiple subtype target genes
\* detected", and no gene-based subtype prediction, whenever the typer
\* returns one type, of IV(2B), V(5C2), V(5C2&5), and there is more than one
\* subtyping gene, whatever the homology hits; and in no other situation.
C5_AlertWheneverSeveralGenes ==
    ReportWritten =>
        /\ MultipleAlert <=> (SubtypedSingleType /\ Cardinality(subtyping_genes) > 1)
        /\ MultipleAlert => Cardinality(GenePredictions) = 1

\* C5 amended: the report has the alert, and no gene-based subtype
\* prediction, whenever the typer returns one type, of IV(2B), V(5C2),
\* V(5C2&5), there is more than one subtyping gene, and the best homology
\* hit's template name has a non-empty subtype segment after its first '|';
\* and in no other situation (none without homology hits, none for a best
\* hit without '|').
C5_AlertNeedsHomologySubtype ==
    pc \in {"html", "done", "error"} =>
        /\ MultipleAlert <=>
             /\ SubtypedSingleType
             /\ Cardinality(subtyping_genes) > 1
             /\ kmer_hits # <<>>
             /\ Len(Split(kmer_hits[1][1], "|")) >= 2
             /\ Split(kmer_hits[1][1], "|")[2] # ""
        /\ MultipleAlert =>
             /\ Cardinality(GenePredictions) = 1
             /\ HasLine("Prediction based on genes: " \o sccmec_types[1])

C5_Witness ==
    /\ pc = "done" /\ MultipleAlert
    /\ sccmec_types = <<"SCCmec_type_IV(2B)">>
    /\ Cardinality(subtyping_genes) = 2

-----------------------------------------------------------------------------
(* C6: no error state.                                                     *)

\* C6: the core never reaches an error state: for every well-typed input,
\* a single subtyping gene without '-' included, the run completes and
\* writes the report and the homology table.
C6_NeverFails == pc # "error"

-----------------------------------------------------------------------------
(* C7: the resistance marker over the rows read.                           *)

LastOf(S) == CHOOSE i \in S : \A j \in S : j <= i

\* the well-formed rows read so far whose gene token starts with a prefix of P
RowsRead(P) ==
    {i \in 1..db_pos :
        /\ Len(db_file[i]) >= 4
        /\ \E prefix \in P : StartsWith(Split(db_file[i][1], ":")[1], prefix)}

\* the marker of the last row of S: mecALGA251 for a token that starts with
\* it, mecA for any other
MarkerOfLast(S) ==
    IF S = {} THEN ""
    ELSE IF StartsWith(Split(db_file[LastOf(S)][1], ":")[1], "mecALGA251")
         THEN "mecALGA251" ELSE "mecA"

\* C7 as stated: the marker is empty if no row's token is a mecA or
\* mecALGA251 gene, else the marker of the last such row; any other row (a
\* mec-class-C1 or mec-class-C2 row too) and a row of fewer than 4 columns
\* leave it unchanged.
C7_LastMecARowWins == mrsa_gene = MarkerOfLast(RowsRead({"mecA"}))

\* C7 amended: last write wins over the rows whose token starts with mecA
\* (mecALGA251 included) or with mec-class: the marker is empty if there is
\* no such row, else mecALGA251 if the last one starts with mecALGA251 and
\* mecA otherwise, so a mec-class-C1 or mec-class-C2 row sets it to mecA;
\* every other row (mecC, mecR1, mecI, dmecR1, IS1272, ccr and subtyping
\* genes) and a row of fewer than 4 columns leave it unchanged.
C7_LastMarkerRowWins == mrsa_gene = MarkerOfLast(RowsRead({"mecA", "mec-class"}))

\* a mecALGA251 row, then a mec-class-C1 row, then a malformed mecALGA251 row
C7_Witness ==
    /\ pc = "done" /\ Len(db_file) = 3
    /\ mrsa_gene = "mecA"
    /\ StartsWith(db_file[1][1], "mecALGA251") /\ Len(db_file[1]) >= 4
    /\ StartsWith(db_file[2][1], "mec-class-C1") /\ Len(db_file[2]) >= 4
    /\ StartsWith(db_file[3][1], "mecALGA251") /\ Len(db_file[3]) < 4

-----------------------------------------------------------------------------
(* C8: two invocations on the same tables.                                 *)

\* C8: two runs on identical inputs produce byte-identical report text, the
\* order of the lines under "Detected gene complexes", "Additional complexes
\* found", "Additional genes found" and "Missing genes for this cassette"
\* included.
C8_SameReportAgain == (rerun /\ pc = "done") => report = prev_report

-----------------------------------------------------------------------------
(* C9: the ranked homology list.                                           *)

Retained == {i \in DOMAIN km_file :
                Len(km_file[i]) >= 10 /\ ParseFloat(km_file[i][7]) >= 5000}
NameOf(i) == km_file[i][1]
Ranked == pc \in {"report", "html", "done"}
Smaller(a, b) == IF a < b THEN a ELSE b

\* the places of the rows S ranked by descending score[i] and, for equal
\* scores, by ascending i
Places(S, score) ==
    [i \in S |-> 1 + Cardinality({j \in S :
                       \/ score[j] > score[i]
                       \/ score[j] = score[i] /\ j < i})]

\* C9 as stated: for any rows, the ranked list holds exactly the retained
\* rows (template coverage >= 50.0) by non-increasing score, equal scores in
\* the order of the input; the table holds its first min(5, n) elements.
C9_RankedListIsRetainedRows ==
    Ranked =>
        LET rows  == Retained
            place == Places(rows, [i \in rows |-> ParseFloat(km_file[i][2])])
        IN  /\ Len(kmer_hits) = Cardinality(rows)
            /\ \A i \in rows :
                 kmer_hits[place[i]] = <<NameOf(i), KmerRecord(km_file[i])>>
            /\ pc = "done" =>
                 Len(html) = IF rows = {} THEN 2
                             ELSE 2 + Smaller(5, Cardinality(rows))

\* of the rows R, the first of each template name
FirstRows(R) == {i \in R : \A j \in R : NameOf(j) = NameOf(i) => i <= j}
\* of the rows R, the last with the template name of row i
LastOfName(R, i) ==
    CHOOSE j \in R : NameOf(j) = NameOf(i) /\ \A k \in R : NameOf(k) = NameOf(i) => k <= j

\* C9 amended: the ranked list holds one hit per template name of the
\* retained rows (template coverage >= 50.0), with the record of the last
\* retained row of that name, by non-increasing score, equal scores in the
\* order in which the names were first encountered; the best hit of the
\* report is its first element and the table holds its first min(5, n)
\* elements in the same order.  (For pairwise distinct template names this
\* is the claim as stated.)
C9_RankedListIsRetainedNames ==
    Ranked =>
        LET rows  == Retained
            first == FirstRows(rows)
            last  == [i \in first |-> LastOfName(rows, i)]
            place == Places(first, [i \in first |-> ParseFloat(km_file[last[i]][2])])
            hit   == [i \in first |-> <<NameOf(i), KmerRecord(km_file[last[i]])>>]
            score == [a \in DOMAIN kmer_hits |-> ParseFloat(kmer_hits[a][2].Score)]
        IN  /\ Len(kmer_hits) = Cardinality(first)
            /\ \A i \in first : kmer_hits[place[i]] = hit[i]
            /\ \A a, b \in DOMAIN kmer_hits : a < b => score[a] >= score[b]
            /\ ReportWritten /\ sccmec_types = <<>> =>
                 \A i \in first : place[i] = 1 =>
                     HasLine("Best homology match: " \o NameOf(i) \o " ("
                             \o km_file[last[i]][7] \o "% coverage)")
            /\ pc = "done" =>
                 /\ Len(html) = IF first = {} THEN 2
                                ELSE 2 + Smaller(5, Cardinality(first))
                 /\ \A i \in first : place[i] <= 5 => html[2 + place[i]] = HtmlRow(hit[i])

\* more hits than the table holds, the first two tied and a lower one
\* encountered before them
C9_Witness ==
    /\ pc = "done" /\ Len(kmer_hits) > 5 /\ Len(html) = 7
    /\ kmer_hits[1][2].Score = "10.20" /\ kmer_hits[2][2].Score = "10.2"
    /\ kmer_hits[1][1] = NameOf(2) /\ kmer_hits[2][1] = NameOf(3)
    /\ km_file[1][2] = "9.5"

-----------------------------------------------------------------------------
(* C10: the resistance line and the evidence.                              *)

\* C10: whenever the report states "MSSA isolate ... The mecA/mecC gene was
\* not detected", the detected mec genes hold neither mecA nor mecC, and so
\* the typer's list is empty.
C10_MssaMeansNoMecGene ==
    (ReportWritten /\ HasLine("The mecA/mecC gene was not detected")) =>
        /\ "mecA" \notin mec_genes
        /\ "mecC" \notin mec_genes
        /\ sccmec_types = <<>>

====
